---- MODULE Spec2Model ----
(***************************************************************************)
(* Model of the geospatial point service: the FastAPI routes of            *)
(* app/routes.py and app/health.py, the CRUD functions of app/crud.py, the  *)
(* response schema of app/schemas.py, the table of app/models.py and the    *)
(* engine and session dependency of app/db.py.                              *)
(*                                                                          *)
(* A WKT text is a record  [pre, kw, sp, pos]:  an optional "SRID=...;"     *)
(* prefix, the geometry keyword, whether a blank separates the keyword     *)
(* from the parenthesis, and the list of positions, each a list of tokens. *)
(* A token is  [num, neg, int, frac, tail]:  whether it is a numeral, its  *)
(* sign, its integer part, the decimal digits written after the point,     *)
(* and whether further digits follow that lie below the resolution of a    *)
(* float64.  A float is an integer number of units of 10^-Decimals         *)
(* degree; the ordinates and the bbox parameters are floats.               *)
(***************************************************************************)
EXTENDS Integers, Sequences, FiniteSets, TLC

VARIABLES engine, rows, last_id, pc, req, db_obj, result, session, stmts

vars == <<engine, rows, last_id, pc, req, db_obj, result, session, stmts>>

(* ---------------------------------------------------------------------- *)
(* Bounds and inputs                                                       *)
(* ---------------------------------------------------------------------- *)

\* Largest id the store is let to hand out, and so the most rows of the table.
MaxRows == 2

\* The callers whose requests interleave.
Callers == {"a", "b"}

\* The engines settings.database_url may name: SpatiaLite in development,
\* PostGIS in production.
Engines == {"sqlite", "postgresql"}

\* The reference system create tags every geometry with, and the column's.
SRID == 4326

\* Bounds of the bbox query parameters.
LAT_GE == -90
LAT_LE == 90
LON_GE == -180
LON_LE == 180

\* Instants datetime.now may return.
Instants == {1}

\* The decimals floats are kept to.
Decimals == 5

\* The number of units in one degree, and the float of n degrees.
Scale == 10 ^ Decimals
Deg(n) == n * Scale

\* A numeral as written: sign, integer part, the digits after the point and,
\* when tail holds, thirty zeros and a 1 after them.
Dec(neg, int, frac, tail) ==
    [num |-> TRUE, neg |-> neg, int |-> int, frac |-> frac, tail |-> tail]

\* The numeral of a whole number, written without a point.
Num(n) == Dec(n < 0, IF n < 0 THEN -n ELSE n, << >>, FALSE)

\* A token that is not a numeral.
Word == [num |-> FALSE, neg |-> FALSE, int |-> 0, frac |-> << >>, tail |-> FALSE]

Wkt(kw, sp, pos) == [pre |-> "", kw |-> kw, sp |-> sp, pos |-> pos]

\* POINT(<lon> <lat>)
PointText(lon, lat) == Wkt("POINT", FALSE, << <<Num(lon), Num(lat)>> >>)

\* Texts that are single-point expressions: POINT (1.0 1.00<thirty zeros>1),
\* the point (1,1); POINT(51.51999 -0.10684), the example of schemas.py; and
\* POINT(200 10).
PointTexts ==
    { Wkt("POINT", TRUE, << <<Dec(FALSE, 1, <<0>>, FALSE),
                              Dec(FALSE, 1, <<0, 0>>, TRUE)>> >>),
      Wkt("POINT", FALSE, << <<Dec(FALSE, 51, <<5, 1, 9, 9, 9>>, FALSE),
                               Dec(TRUE, 0, <<1, 0, 6, 8, 4>>, FALSE)>> >>),
      PointText(200, 10) }

\* Texts that are not: LINESTRING(0 0, 1 1), POLYGON((0 0, 1 0, 1 1, 0 0)),
\* POINT(1 2 3), POINT(a b), SRID=3857;POINT(1 1).
OtherTexts ==
    { Wkt("LINESTRING", FALSE, << <<Num(0), Num(0)>>, <<Num(1), Num(1)>> >>),
      Wkt("POLYGON", FALSE, << <<Num(0), Num(0)>>, <<Num(1), Num(0)>>,
                               <<Num(1), Num(1)>>, <<Num(0), Num(0)>> >>),
      Wkt("POINT", FALSE, << <<Num(1), Num(2), Num(3)>> >>),
      Wkt("POINT", FALSE, << <<Word, Word>> >>),
      [pre |-> "SRID=3857;", kw |-> "POINT", sp |-> FALSE,
       pos |-> << <<Num(1), Num(1)>> >>] }

GeomTexts == PointTexts \cup OtherTexts

\* The payloads a caller may post: the example of schemas.py with the value
\* 7, every other text with the value 42.
Payloads ==
    {[geom |-> t, value |-> IF t.pos[1][1].int = 51 THEN 7 ELSE 42] : t \in GeomTexts}

\* The bbox request whose four float parameters are the given degrees.
BBox(min_lat, max_lat, min_lon, max_lon) ==
    [op |-> "bbox", min_lat |-> Deg(min_lat), max_lat |-> Deg(max_lat),
     min_lon |-> Deg(min_lon), max_lon |-> Deg(max_lon)]

\* Bounding boxes a caller may ask for: the box [-1,1]x[-1,1], a box that is
\* a segment, boxes with min > max on one axis, and boxes with a bound
\* outside the declared parameter ranges.
BBoxes ==
    { BBox(-1, 1, -1, 1), BBox(-1, 1, 1, 1),
      BBox(1, -1, -1, 1), BBox(-1, 1, 1, -1),
      BBox(100, -1, -1, 1), BBox(-1, 100, -1, 1) }

(* ---------------------------------------------------------------------- *)
(* Geometry conversions                                                    *)
(* ---------------------------------------------------------------------- *)

ParseError == [ok |-> FALSE, type |-> "", coords |-> << >>]

\* The units the digits of a fraction stand for, the first digit being worth
\* w units and each next one a tenth of the one before.
RECURSIVE FracUnits(_, _)
FracUnits(frac, w) ==
    IF frac = << >> THEN 0
    ELSE Head(frac) * w + FracUnits(Tail(frac), w \div 10)

\* The numerals whose float is a whole number of units: at most Decimals
\* digits after the point, and a tail only after a value that is not zero.
\* Minus zero is left out; its float is not the float of zero.
Unitary(tok) ==
    /\ tok.num
    /\ tok.int < 1000
    /\ Len(tok.frac) <= Decimals
    /\ (tok.neg \/ tok.tail) => tok.int + FracUnits(tok.frac, Scale \div 10) > 0

\* The reader's conversion of a numeral to a float64: the nearest float.
\* Numerals of up to fifteen significant digits name distinct floats, so the
\* float of a numeral with at most Decimals decimals is its number of units.
\* The digits of a tail change the value by less than 10^-31, and a non-zero
\* number of units is more than 10^-27 away from the next rounding boundary
\* of the floats: the tail is rounded away.  The conversion is defined for
\* the unitary numerals only.
strtod(tok) ==
    CASE Unitary(tok) ->
           LET h == tok.int * Scale + FracUnits(tok.frac, Scale \div 10)
           IN  IF tok.neg THEN -h ELSE h

Ordinates(p) == [i \in 1..Len(p) |-> strtod(p[i])]

AllNumeric(pos) ==
    \A i \in 1..Len(pos) : \A j \in 1..Len(pos[i]) : pos[i][j].num

SameDim(pos) ==
    /\ Len(pos) >= 1
    /\ Len(pos[1]) \in {2, 3}
    /\ \A i \in 1..Len(pos) : Len(pos[i]) = Len(pos[1])

Shape(type, pos) ==
    [ok |-> TRUE, type |-> type, coords |-> [i \in 1..Len(pos) |-> Ordinates(pos[i])]]

\* shapely.wkt.loads: the WKT reader.  It reads any geometry kind, takes no
\* reference-system prefix, and raises on anything that is not WKT.
wkt_loads(text) ==
    IF text.pre # "" \/ ~AllNumeric(text.pos) \/ ~SameDim(text.pos)
    THEN ParseError
    ELSE IF text.kw = "POINT" /\ Len(text.pos) = 1
    THEN Shape("Point", text.pos)
    ELSE IF text.kw = "LINESTRING" /\ Len(text.pos) >= 2
    THEN Shape("LineString", text.pos)
    ELSE IF text.kw = "POLYGON" /\ Len(text.pos) >= 4
                                /\ text.pos[1] = text.pos[Len(text.pos)]
    THEN Shape("Polygon", text.pos)
    ELSE ParseError

\* geoalchemy2.shape.from_shape: the WKB element of a shape, tagged with srid.
from_shape(shape, srid) ==
    [srid |-> srid, type |-> shape.type, coords |-> shape.coords]

\* create_point_geom with the srid argument left to from_shape's default.
create_point_geom_DefaultSrid(text) == from_shape(wkt_loads(text), -1)

\* crud.py line 29: the native value create hands to the session.
create_point_geom(text) == from_shape(wkt_loads(text), SRID)

\* geoalchemy2.shape.to_shape: the shape of a WKB element.
to_shape(v) == [ok |-> TRUE, type |-> v.type, coords |-> v.coords]

Keyword(type) ==
    CASE type = "Point" -> "POINT"
      [] type = "LineString" -> "LINESTRING"
      [] OTHER -> "POLYGON"

\* The decimals a number of units below one degree is written with: as
\* many as leave no trailing zero.
DecimalsOf(f) ==
    CHOOSE k \in 0..Decimals :
        /\ f % (10 ^ (Decimals - k)) = 0
        /\ k > 0 => f % (10 ^ (Decimals - k + 1)) # 0

\* The digits after the point of a number of units below one degree.
FracDigits(f) == [i \in 1..DecimalsOf(f) |-> (f \div (10 ^ (Decimals - i))) % 10]

\* The writer's numeral of a float: sign, integer part, and the decimals
\* with trailing zeros trimmed; no point when no decimal is left.
trimmed_numeral(x) ==
    LET a == IF x < 0 THEN -x ELSE x
    IN  Dec(x < 0, a \div Scale, FracDigits(a % Scale), FALSE)

\* shapely's .wkt: keyword, a blank, trimmed numerals.
shape_wkt(shape) ==
    Wkt(Keyword(shape.type), TRUE,
        [i \in 1..Len(shape.coords) |->
            [j \in 1..Len(shape.coords[i]) |->
                trimmed_numeral(shape.coords[i][j])]])

\* convert_wkb_to_wkt formatting the point by hand, latitude first.
convert_wkb_to_wkt_LatFirst(v) ==
    LET p == to_shape(v).coords[1]
    IN  Wkt("POINT", FALSE, << <<trimmed_numeral(p[2]), trimmed_numeral(p[1])>> >>)

\* ExamplePointModel.convert_wkb_to_wkt: the value read from the column is a
\* WKBElement, and its text is to_shape(v).wkt.
convert_wkb_to_wkt(v) == shape_wkt(to_shape(v))

\* ExamplePointModel built from a row (from_attributes).
ExamplePointModel(row) ==
    [id |-> row.id, created_at |-> row.created_at,
     geom |-> convert_wkb_to_wkt(row.geom), value |-> row.value]

(* ---------------------------------------------------------------------- *)
(* The table                                                               *)
(* ---------------------------------------------------------------------- *)

\* Column geom = Geometry("POINT", srid=4326): the engine takes a value only
\* if it is a two-dimensional point in the column's reference system.
geom_column_accepts(v) ==
    /\ v.type = "Point"
    /\ Len(v.coords) = 1
    /\ Len(v.coords[1]) = 2
    /\ v.srid = SRID

\* next_id without autoincrement: every row gets the same id.
next_id_NoAutoincrement(last) == 1

\* Column id = Integer primary key: the engine assigns the integer after the
\* last one it assigned, at the INSERT.
next_id(last) == last + 1

\* ExamplePoint without the created_at column default.
ExamplePoint_NoDefault(last, geom, value, now) ==
    [id |-> next_id(last), created_at |-> 0, geom |-> geom, value |-> value]

\* ExamplePoint(geom=..., value=...) as flushed: id from the engine,
\* created_at from the column default.
ExamplePoint(last, geom, value, now) ==
    [id |-> next_id(last), created_at |-> now, geom |-> geom, value |-> value]

\* COMMIT of a flushed row: the table other sessions see, after it.
insert_row(table, row) == Append(table, row)

(* ---------------------------------------------------------------------- *)
(* Queries                                                                 *)
(* ---------------------------------------------------------------------- *)

ST_MakeEnvelope(xmin, ymin, xmax, ymax, srid) ==
    [xmin |-> xmin, ymin |-> ymin, xmax |-> xmax, ymax |-> ymax, srid |-> srid]

\* ST_Intersects taken as "strictly inside".
ST_Intersects_Strict(g, env) ==
    /\ g.srid = env.srid
    /\ env.xmin < g.coords[1][1] /\ g.coords[1][1] < env.xmax
    /\ env.ymin < g.coords[1][2] /\ g.coords[1][2] < env.ymax

\* A stored point intersects the envelope when it lies in it or on its edge.
ST_Intersects(g, env) ==
    /\ g.srid = env.srid
    /\ env.xmin <= g.coords[1][1] /\ g.coords[1][1] <= env.xmax
    /\ env.ymin <= g.coords[1][2] /\ g.coords[1][2] <= env.ymax

RECURSIVE order_by_id(_)
\* ORDER BY id of a set of rows.
order_by_id(S) ==
    IF S = {} THEN << >>
    ELSE LET m == CHOOSE r \in S : \A q \in S : r.id <= q.id
         IN  <<m>> \o order_by_id(S \ {m})

Range(s) == {s[i] : i \in 1..Len(s)}

\* The orders in which the engine may hand back the rows of S when the
\* statement has no ORDER BY.
AnyOrder(S) ==
    {s \in [1..Cardinality(S) -> S] : Range(s) = S}

RECURSIVE Reverse(_)
Reverse(q) == IF q = << >> THEN << >> ELSE Reverse(Tail(q)) \o <<Head(q)>>

\* get_example_points_in_bbox ordering by id descending.
get_example_points_in_bbox_Desc(table, min_lat, max_lat, min_lon, max_lon) ==
    LET envelope == ST_MakeEnvelope(min_lon, min_lat, max_lon, max_lat, SRID)
    IN  Reverse(order_by_id({r \in Range(table) : ST_Intersects(r.geom, envelope)}))

\* crud.get_example_points_in_bbox
get_example_points_in_bbox(table, min_lat, max_lat, min_lon, max_lon) ==
    LET envelope == ST_MakeEnvelope(min_lon, min_lat, max_lon, max_lat, SRID)
    IN  order_by_id({r \in Range(table) : ST_Intersects(r.geom, envelope)})

\* get_all_example_points taking the first row of the result only.
get_all_example_points_First(table) ==
    IF table = << >> THEN {<< >>} ELSE {<<r>> : r \in Range(table)}

\* crud.get_all_example_points: select(ExamplePoint), no ORDER BY.
get_all_example_points(table) == AnyOrder(Range(table))

Serialise(seq) == [i \in 1..Len(seq) |-> ExamplePointModel(seq[i])]

(* ---------------------------------------------------------------------- *)
(* Requests and responses                                                  *)
(* ---------------------------------------------------------------------- *)

\* Python's None in an integer attribute; ids and instants start at 1.
None == 0

NoReq == [op |-> "none"]
NoGeom == [srid |-> 0, type |-> "", coords |-> << >>]
NoObj == [id |-> None, created_at |-> None, geom |-> NoGeom, value |-> 0]
NoResult == [kind |-> "none"]

\* A response that is an error, by the exception that produced it.
Error(exc) == [kind |-> "error", exc |-> exc]

\* Query(ge=.., le=..) on the four bbox parameters.
bbox_params_valid(min_lat, max_lat, min_lon, max_lon) ==
    /\ Deg(LAT_GE) <= min_lat /\ min_lat <= Deg(LAT_LE)
    /\ Deg(LAT_GE) <= max_lat /\ max_lat <= Deg(LAT_LE)
    /\ Deg(LON_GE) <= min_lon /\ min_lon <= Deg(LON_LE)
    /\ Deg(LON_GE) <= max_lon /\ max_lon <= Deg(LON_LE)

\* bounds_invalid without the longitude check.
bounds_invalid_LatOnly(min_lat, max_lat, min_lon, max_lon) ==
    min_lat > max_lat

\* routes.read_points_in_bbox lines 101-104.
bounds_invalid(min_lat, max_lat, min_lon, max_lon) ==
    min_lat > max_lat \/ min_lon > max_lon

\* Creates that have not yet reached their INSERT.
PendingCreates == {c \in Callers : pc[c] \in {"create", "commit"}}

\* The last id handed out once the INSERT that took it is rolled back: the
\* rowid of SQLite is one more than the largest in the table, and the
\* sequence of PostgreSQL does not go back.
rolled_back_id(last) == IF engine = "sqlite" THEN last - 1 ELSE last

\* SQLite has one writer at a time: another session holds the write lock
\* from its INSERT to its COMMIT.  PostgreSQL has no such lock.
write_locked(c) ==
    engine = "sqlite" /\ \E d \in Callers \ {c} : pc[d] = "flushed"

(* ---------------------------------------------------------------------- *)
(* Actions                                                                 *)
(* ---------------------------------------------------------------------- *)

Init ==
    /\ engine \in Engines
    /\ rows = << >>
    /\ last_id = 0
    /\ pc = [c \in Callers |-> "idle"]
    /\ req = [c \in Callers |-> NoReq]
    /\ db_obj = [c \in Callers |-> NoObj]
    /\ result = [c \in Callers |-> NoResult]
    /\ session = [c \in Callers |-> "none"]
    /\ stmts = [c \in Callers |-> 0]

\* get_db up to its yield: a session for this request.
get_db_open(c, r, next) ==
    /\ pc[c] = "idle"
    /\ pc' = [pc EXCEPT ![c] = next]
    /\ req' = [req EXCEPT ![c] = r]
    /\ session' = [session EXCEPT ![c] = "open"]
    /\ stmts' = [stmts EXCEPT ![c] = 0]
    /\ UNCHANGED <<engine, rows, last_id, db_obj>>

\* POST /points arrives: the payload validates (geom a string, value a float).
PostPointsWith(c, data) ==
    /\ last_id + Cardinality(PendingCreates) < MaxRows
    /\ get_db_open(c, [op |-> "create", geom |-> data.geom, value |-> data.value],
                   "create")
    /\ UNCHANGED result

PostPoints(c) == \E data \in Payloads : PostPointsWith(c, data)

\* create_example_point lines 29-30: parse the text, tag the shape, build
\* the object.
CreateParse(c) ==
    /\ pc[c] = "create"
    /\ IF wkt_loads(req[c].geom).ok
       THEN /\ db_obj' = [db_obj EXCEPT ![c] =
                   [id |-> None, created_at |-> None,
                    geom |-> create_point_geom(req[c].geom), value |-> req[c].value]]
            /\ pc' = [pc EXCEPT ![c] = "commit"]
            /\ UNCHANGED result
       ELSE /\ result' = [result EXCEPT ![c] = Error("WKTReadingError")]
            /\ pc' = [pc EXCEPT ![c] = "close"]
            /\ UNCHANGED db_obj
    /\ UNCHANGED <<engine, rows, last_id, req, session, stmts>>

\* create_example_point lines 31-32, first half: db.commit() flushes.  The
\* INSERT gives the object its created_at and its id; the row is not yet
\* visible to other sessions.  The statement raises when the store is
\* unavailable and, on SQLite, when another session holds the write lock and
\* the busy timeout runs out; the engine rejects a value its column does not
\* take.
CreateFlush(c) ==
    /\ pc[c] = "commit"
    /\ stmts' = [stmts EXCEPT ![c] = @ + 1]
    /\ \/ /\ result' = [result EXCEPT ![c] = Error("OperationalError")]
          /\ pc' = [pc EXCEPT ![c] = "close"]
          /\ UNCHANGED <<last_id, db_obj>>
       \/ /\ ~write_locked(c)
          /\ ~geom_column_accepts(db_obj[c].geom)
          /\ result' = [result EXCEPT ![c] = Error("DBAPIError")]
          /\ pc' = [pc EXCEPT ![c] = "close"]
          /\ UNCHANGED <<last_id, db_obj>>
       \/ /\ ~write_locked(c)
          /\ geom_column_accepts(db_obj[c].geom)
          /\ \E now \in Instants :
                db_obj' = [db_obj EXCEPT ![c] =
                    ExamplePoint(last_id, db_obj[c].geom, db_obj[c].value, now)]
          /\ last_id' = next_id(last_id)
          /\ pc' = [pc EXCEPT ![c] = "flushed"]
          /\ UNCHANGED result
    /\ UNCHANGED <<engine, rows, req, session>>

\* create_example_point line 32, second half: db.commit() commits.  The row
\* becomes visible to every session; or the COMMIT raises and the row is
\* rolled back.  SQLite then gives the rowid to the next INSERT again;
\* PostgreSQL's sequence keeps its value.
CreateCommit(c) ==
    /\ pc[c] = "flushed"
    /\ stmts' = [stmts EXCEPT ![c] = @ + 1]
    /\ \/ /\ rows' = insert_row(rows, db_obj[c])
          /\ pc' = [pc EXCEPT ![c] = "refresh"]
          /\ UNCHANGED <<result, last_id>>
       \/ /\ result' = [result EXCEPT ![c] = Error("OperationalError")]
          /\ pc' = [pc EXCEPT ![c] = "close"]
          /\ last_id' = rolled_back_id(last_id)
          /\ UNCHANGED rows
    /\ UNCHANGED <<engine, req, db_obj, session>>

\* create_example_point lines 33-34 and the response model: reload the
\* object by its primary key and return it; or the reload raises, with the
\* row committed.
CreateRefresh(c) ==
    /\ pc[c] = "refresh"
    /\ stmts' = [stmts EXCEPT ![c] = @ + 1]
    /\ \/ LET row == CHOOSE r \in Range(rows) : r.id = db_obj[c].id
          IN  /\ db_obj' = [db_obj EXCEPT ![c] = row]
              /\ result' = [result EXCEPT ![c] =
                     [kind |-> "record", rec |-> ExamplePointModel(row)]]
       \/ /\ result' = [result EXCEPT ![c] = Error("OperationalError")]
          /\ UNCHANGED db_obj
    /\ pc' = [pc EXCEPT ![c] = "close"]
    /\ UNCHANGED <<engine, rows, last_id, req, session>>

\* GET /points arrives.
GetPoints(c) ==
    /\ get_db_open(c, [op |-> "list"], "list")
    /\ UNCHANGED result

\* routes.read_points: one unordered select, serialised; or db.execute
\* raises, which the route does not catch.
ReadPoints(c) ==
    /\ pc[c] = "list"
    /\ stmts' = [stmts EXCEPT ![c] = @ + 1]
    /\ \/ \E s \in get_all_example_points(rows) :
             result' = [result EXCEPT ![c] =
                 [kind |-> "list", recs |-> Serialise(s), at |-> Len(rows)]]
       \/ result' = [result EXCEPT ![c] = Error("OperationalError")]
    /\ pc' = [pc EXCEPT ![c] = "close"]
    /\ UNCHANGED <<engine, rows, last_id, req, db_obj, session>>

\* GET /health arrives.
GetHealth(c) ==
    /\ get_db_open(c, [op |-> "health"], "health")
    /\ UNCHANGED result

\* health.healthcheck: SELECT 1; an exception of the statement is swallowed
\* and reported as a degraded service.
Healthcheck(c) ==
    /\ pc[c] = "health"
    /\ stmts' = [stmts EXCEPT ![c] = @ + 1]
    /\ \E up \in BOOLEAN :
          result' = [result EXCEPT ![c] =
              IF up THEN [kind |-> "health", status |-> "ok", db |-> "up"]
                    ELSE [kind |-> "health", status |-> "degraded", db |-> "down"]]
    /\ pc' = [pc EXCEPT ![c] = "close"]
    /\ UNCHANGED <<engine, rows, last_id, req, db_obj, session>>

\* GET /points/bbox arrives: the four parameters are validated against
\* their declared ranges before the handler runs.
GetPointsBBoxWith(c, r) ==
    IF bbox_params_valid(r.min_lat, r.max_lat, r.min_lon, r.max_lon)
    THEN /\ get_db_open(c, r, "bbox")
         /\ UNCHANGED result
    ELSE /\ get_db_open(c, r, "close")
         /\ result' = [result EXCEPT ![c] = Error("RequestValidationError")]

GetPointsBBox(c) == \E r \in BBoxes : GetPointsBBoxWith(c, r)

\* routes.read_points_in_bbox: the bounds check, then the query.  The
\* statement calls ST_MakeEnvelope and ST_Intersects by these names on either
\* engine (db.py registers no other name for SQLite), and db.execute either
\* answers the rows or raises: the store is unavailable, or it does not
\* provide a function of that name.  The route does not catch the exception.
ReadPointsInBBox(c) ==
    /\ pc[c] = "bbox"
    /\ \/ /\ bounds_invalid(req[c].min_lat, req[c].max_lat,
                           req[c].min_lon, req[c].max_lon)
          /\ result' = [result EXCEPT ![c] = Error("HTTPException")]
          /\ UNCHANGED stmts
       \/ /\ ~bounds_invalid(req[c].min_lat, req[c].max_lat,
                            req[c].min_lon, req[c].max_lon)
          /\ stmts' = [stmts EXCEPT ![c] = @ + 1]
          /\ \/ result' = [result EXCEPT ![c] = Error("OperationalError")]
             \/ result' = [result EXCEPT ![c] =
                    [kind |-> "list",
                     recs |-> Serialise(get_example_points_in_bbox(rows,
                                  req[c].min_lat, req[c].max_lat,
                                  req[c].min_lon, req[c].max_lon)),
                     at |-> Len(rows)]]
    /\ pc' = [pc EXCEPT ![c] = "close"]
    /\ UNCHANGED <<engine, rows, last_id, req, db_obj, session>>

\* get_db without the finally clause: the session is left as it is.
get_db_close_NoFinally(c) ==
    /\ pc[c] = "close"
    /\ pc' = [pc EXCEPT ![c] = "done"]
    /\ UNCHANGED <<engine, rows, last_id, req, db_obj, result, session, stmts>>

\* get_db after its yield: the finally clause closes the session and the
\* response goes out.
get_db_close(c) ==
    /\ pc[c] = "close"
    /\ session' = [session EXCEPT ![c] = "closed"]
    /\ pc' = [pc EXCEPT ![c] = "done"]
    /\ UNCHANGED <<engine, rows, last_id, req, db_obj, result, stmts>>

\* The caller has its response and is free to send another request.
Return(c) ==
    /\ pc[c] = "done"
    /\ pc' = [pc EXCEPT ![c] = "idle"]
    /\ req' = [req EXCEPT ![c] = NoReq]
    /\ db_obj' = [db_obj EXCEPT ![c] = NoObj]
    /\ result' = [result EXCEPT ![c] = NoResult]
    /\ session' = [session EXCEPT ![c] = "none"]
    /\ stmts' = [stmts EXCEPT ![c] = 0]
    /\ UNCHANGED <<engine, rows, last_id>>

Next ==
    \E c \in Callers :
        \/ PostPoints(c)
        \/ CreateParse(c)
        \/ CreateFlush(c)
        \/ CreateCommit(c)
        \/ CreateRefresh(c)
        \/ GetPoints(c)
        \/ ReadPoints(c)
        \/ GetPointsBBox(c)
        \/ ReadPointsInBBox(c)
        \/ GetHealth(c)
        \/ Healthcheck(c)
        \/ get_db_close(c)
        \/ Return(c)

Spec == Init /\ [][Next]_vars

\* The steps the server takes on its own for a request it has accepted: the
\* handler runs to its return or its exception, and the dependency's exit
\* code runs after it.
Serve(c) ==
    \/ CreateParse(c)
    \/ CreateFlush(c)
    \/ CreateCommit(c)
    \/ CreateRefresh(c)
    \/ ReadPoints(c)
    \/ ReadPointsInBBox(c)
    \/ Healthcheck(c)
    \/ get_db_close(c)

\* One request for each way an operation can end: a create that succeeds
\* (or whose INSERT, COMMIT or reload raises), one the store rejects, one
\* whose text cannot be read; a bbox query whose statement is answered or
\* raises, one with min > max, one with a bound out of range.
ExitPathPayloads ==
    { [geom |-> PointText(1, 1), value |-> 42],
      [geom |-> Wkt("LINESTRING", FALSE, << <<Num(0), Num(0)>>, <<Num(1), Num(1)>> >>),
       value |-> 42],
      [geom |-> Wkt("POINT", FALSE, << <<Word, Word>> >>), value |-> 42] }

ExitPathBBoxes ==
    { BBox(-1, 1, -1, 1), BBox(1, -1, -1, 1), BBox(-1, 100, -1, 1) }

NextExitPaths ==
    \E c \in Callers :
        \/ \E data \in ExitPathPayloads : PostPointsWith(c, data)
        \/ CreateParse(c)
        \/ CreateFlush(c)
        \/ CreateCommit(c)
        \/ CreateRefresh(c)
        \/ GetPoints(c)
        \/ ReadPoints(c)
        \/ \E r \in ExitPathBBoxes : GetPointsBBoxWith(c, r)
        \/ ReadPointsInBBox(c)
        \/ GetHealth(c)
        \/ Healthcheck(c)
        \/ get_db_close(c)
        \/ Return(c)

\* The service with its scheduling: an accepted request is run to its end.
\* Whether a caller sends a request, or another one, is left open.
FairSpec ==
    Init /\ [][NextExitPaths]_vars /\ \A c \in Callers : WF_vars(Serve(c))

(* ---------------------------------------------------------------------- *)
(* Vocabulary of the properties                                            *)
(* ---------------------------------------------------------------------- *)

\* The response of caller c is available.
Responded(c) == pc[c] \in {"close", "done"}

\* The text is a single-point expression POINT(<lon> <lat>).
SinglePointExpression(text) ==
    /\ text.pre = ""
    /\ text.kw = "POINT"
    /\ Len(text.pos) = 1
    /\ Len(text.pos[1]) = 2
    /\ text.pos[1][1].num /\ text.pos[1][2].num

\* The longitude and latitude a single-point expression denotes, as floats.
LonOf(text) == strtod(text.pos[1][1])
LatOf(text) == strtod(text.pos[1][2])

InRange(lon, lat) ==
    /\ Deg(-180) <= lon /\ lon <= Deg(180)
    /\ Deg(-90) <= lat /\ lat <= Deg(90)

\* The error kinds of the specification, as the exceptions that carry them.
MalformedGeometry == "WKTReadingError"
InvalidBounds == "HTTPException"
StorageUnavailable == "OperationalError"

Ids(recs) == {recs[i].id : i \in 1..Len(recs)}

\* The rows committed when a read that saw `at` rows ran.
Snapshot(at) == {rows[i] : i \in 1..at}

\* The rows of a snapshot whose point lies in or on the box of request r.
InBox(at, r) ==
    {q \in Snapshot(at) :
        /\ r.min_lon <= q.geom.coords[1][1] /\ q.geom.coords[1][1] <= r.max_lon
        /\ r.min_lat <= q.geom.coords[1][2] /\ q.geom.coords[1][2] <= r.max_lat}

BoundsOrdered(r) == r.min_lat <= r.max_lat /\ r.min_lon <= r.max_lon

\* The response to a bbox request r is exactly the records in the box.
ExactlyTheBox(c) ==
    /\ result[c].kind = "list"
    /\ Ids(result[c].recs) = {q.id : q \in InBox(result[c].at, req[c])}
    /\ Len(result[c].recs) = Cardinality(InBox(result[c].at, req[c]))
    /\ \A i \in 1..Len(result[c].recs) :
          \E q \in InBox(result[c].at, req[c]) :
              /\ q.id = result[c].recs[i].id
              /\ LonOf(result[c].recs[i].geom) = q.geom.coords[1][1]
              /\ LatOf(result[c].recs[i].geom) = q.geom.coords[1][2]

(* ---------------------------------------------------------------------- *)
(* C1                                                                      *)
(* ---------------------------------------------------------------------- *)

\* C1, as stated: for every bounding box with minLat <= maxLat and
\* minLon <= maxLon, queryBBox returns exactly the stored records whose point
\* lies in or on the box.
C1_AnyOrderedBox ==
    \A c \in Callers :
        (Responded(c) /\ req[c].op = "bbox" /\ BoundsOrdered(req[c]))
            => ExactlyTheBox(c)

\* C1, amended: for every bounding box with minLat <= maxLat and
\* minLon <= maxLon whose four bounds lie in the declared parameter ranges
\* (latitudes in [-90,90], longitudes in [-180,180]), queryBBox issues one
\* statement and either returns exactly the stored records whose point lies
\* in or on the box, or fails with the store's error for that statement and
\* returns no records; a box with a bound outside those ranges is rejected
\* and returns no records.
C1_BBoxExact ==
    \A c \in Callers :
        (Responded(c) /\ req[c].op = "bbox" /\ BoundsOrdered(req[c]))
            => IF InRange(req[c].min_lon, req[c].min_lat)
                  /\ InRange(req[c].max_lon, req[c].max_lat)
               THEN /\ stmts[c] = 1
                    /\ \/ ExactlyTheBox(c)
                       \/ result[c] = Error(StorageUnavailable)
               ELSE result[c].kind = "error"

\* C1 witness: the box [-1,1]x[-1,1] was queried over a table holding the
\* corner point (1,1) and a point outside; the corner point was returned.
C1_Witness ==
    \E c \in Callers :
        /\ pc[c] = "done" /\ req[c] = BBox(-1, 1, -1, 1)
        /\ result[c].kind = "list" /\ result[c].at = 2
        /\ Len(result[c].recs) = 1
        /\ LonOf(result[c].recs[1].geom) = Deg(1)
        /\ LatOf(result[c].recs[1].geom) = Deg(1)
        /\ \E q \in Snapshot(2) : q.geom.coords[1][1] = Deg(200)

(* ---------------------------------------------------------------------- *)
(* C2                                                                      *)
(* ---------------------------------------------------------------------- *)

\* C2, as stated: queryBBox fails with InvalidBounds whenever
\* minLat > maxLat or minLon > maxLon, without a statement being issued.
C2_AlwaysInvalidBounds ==
    \A c \in Callers :
        (Responded(c) /\ req[c].op = "bbox" /\ ~BoundsOrdered(req[c]))
            => /\ result[c] = Error(InvalidBounds)
               /\ stmts[c] = 0

\* C2, amended: whenever minLat > maxLat or minLon > maxLon queryBBox fails
\* without a statement being issued to the store and without records: with
\* InvalidBounds when the four bounds lie in the declared parameter ranges,
\* and with the parameter validation error otherwise.
C2_RejectedBeforeStorage ==
    \A c \in Callers :
        (Responded(c) /\ req[c].op = "bbox" /\ ~BoundsOrdered(req[c]))
            => /\ stmts[c] = 0
               /\ result[c] =
                    IF InRange(req[c].min_lon, req[c].min_lat)
                       /\ InRange(req[c].max_lon, req[c].max_lat)
                    THEN Error(InvalidBounds)
                    ELSE Error("RequestValidationError")

\* C2 witness: a box with minLon > maxLon was answered with InvalidBounds
\* over a table that holds rows.
C2_Witness ==
    \E c \in Callers :
        /\ pc[c] = "done" /\ req[c] = BBox(-1, 1, 1, -1)
        /\ result[c] = Error(InvalidBounds)
        /\ Len(rows) > 0

(* ---------------------------------------------------------------------- *)
(* C3, C4                                                                  *)
(* ---------------------------------------------------------------------- *)

\* C3: create fails with MalformedGeometry for every text that is not a
\* single-point expression, and inserts no row.  A create that found the
\* store unavailable is not held against the claim.
C3_MalformedRejected ==
    \A c \in Callers :
        (Responded(c) /\ req[c].op = "create"
                      /\ ~SinglePointExpression(req[c].geom))
            => /\ result[c] \in {Error(MalformedGeometry), Error(StorageUnavailable)}
               /\ db_obj[c].id = None

\* C4: create fails with OutOfRange when the point has lon outside
\* [-180,180] or lat outside [-90,90], inserting no row, so that every
\* stored record has lon in [-180,180] and lat in [-90,90].  That no row is
\* inserted is the second conjunct: rows are never removed.
C4_OutOfRangeRejected ==
    /\ \A c \in Callers :
          (Responded(c) /\ req[c].op = "create"
                        /\ SinglePointExpression(req[c].geom)
                        /\ ~InRange(LonOf(req[c].geom), LatOf(req[c].geom)))
              => result[c].kind = "error"
    /\ \A i \in 1..Len(rows) :
          InRange(rows[i].geom.coords[1][1], rows[i].geom.coords[1][2])

(* ---------------------------------------------------------------------- *)
(* C5                                                                      *)
(* ---------------------------------------------------------------------- *)

\* The position in the table of the row with the given id, 0 if none.
PositionOf(id) ==
    IF \E i \in 1..Len(rows) : rows[i].id = id
    THEN CHOOSE i \in 1..Len(rows) : rows[i].id = id
    ELSE 0

\* C5: a successful create inserts exactly one row and returns the full
\* record, with a generated id, a creation instant, the supplied value and
\* the supplied point; every listAll that runs once the row is committed,
\* and every queryBBox whose box contains the point, by any caller, includes
\* that record.
C5_CreateReturnsAndIsVisible ==
    \A c \in Callers :
        (req[c].op = "create" /\ result[c].kind = "record")
            => LET rec == result[c].rec
               IN  /\ rec.id # None
                   /\ rec.created_at # None
                   /\ rec.value = req[c].value
                   /\ SinglePointExpression(rec.geom)
                   /\ LonOf(rec.geom) = LonOf(req[c].geom)
                   /\ LatOf(rec.geom) = LatOf(req[c].geom)
                   /\ Cardinality({i \in 1..Len(rows) : rows[i].id = rec.id}) = 1
                   /\ \A d \in Callers :
                         (result[d].kind = "list" /\ result[d].at >= PositionOf(rec.id))
                             => \/ \E i \in 1..Len(result[d].recs) : result[d].recs[i] = rec
                                \/ /\ req[d].op = "bbox"
                                   /\ ~(/\ req[d].min_lon <= LonOf(rec.geom)
                                        /\ LonOf(rec.geom) <= req[d].max_lon
                                        /\ req[d].min_lat <= LatOf(rec.geom)
                                        /\ LatOf(rec.geom) <= req[d].max_lat)

\* C5 witness: create("POINT(51.51999 -0.10684)", 7) has returned its record, and a listAll
\* by a caller holds it.
C5_Witness ==
    \E c \in Callers, d \in Callers :
        /\ pc[c] = "done" /\ req[c].op = "create" /\ result[c].kind = "record"
        /\ req[c].value = 7 /\ result[c].rec.value = 7
        /\ result[d].kind = "list" /\ req[d].op = "list"
        /\ \E i \in 1..Len(result[d].recs) : result[d].recs[i] = result[c].rec

(* ---------------------------------------------------------------------- *)
(* C6, C7                                                                  *)
(* ---------------------------------------------------------------------- *)

StrictlyAscending(recs) ==
    \A i \in 1..Len(recs) : \A j \in 1..Len(recs) :
        i < j => recs[i].id < recs[j].id

\* C6, as stated: the sequences returned by listAll and by queryBBox are
\* each strictly increasing in id.
C6_BothReadsAscending ==
    \A c \in Callers :
        result[c].kind = "list" => StrictlyAscending(result[c].recs)

\* C6, amended: the sequence returned by queryBBox is strictly increasing in
\* id; the sequence returned by listAll holds every stored record exactly
\* once, in an order the store chooses.
C6_BBoxAscendingListComplete ==
    \A c \in Callers :
        result[c].kind = "list"
            => IF req[c].op = "bbox"
               THEN StrictlyAscending(result[c].recs)
               ELSE /\ Len(result[c].recs) = result[c].at
                    /\ Ids(result[c].recs) = {q.id : q \in Snapshot(result[c].at)}

\* C6 witness: a queryBBox returned two records and a listAll returned two.
C6_Witness ==
    \E c \in Callers, d \in Callers :
        /\ req[c].op = "bbox" /\ result[c].kind = "list" /\ Len(result[c].recs) = 2
        /\ req[d].op = "list" /\ result[d].kind = "list" /\ Len(result[d].recs) = 2

\* C7, as stated: two listAll calls with no create committed between them
\* return identical sequences, the empty sequence on an empty store.
C7_ListIdenticalSequences ==
    \A c \in Callers : \A d \in Callers :
        (/\ req[c].op = "list" /\ result[c].kind = "list"
         /\ req[d].op = "list" /\ result[d].kind = "list"
         /\ result[c].at = result[d].at)
            => result[c].recs = result[d].recs

\* C7, amended: two listAll calls with no create committed between them
\* that both return, return the same records, each once, in orders that may
\* differ; listAll issues one statement and fails only with the store's
\* error for it, and over an empty store what it returns is the empty
\* sequence.
C7_ListSameRecords ==
    /\ \A c \in Callers : \A d \in Callers :
          (/\ req[c].op = "list" /\ result[c].kind = "list"
           /\ req[d].op = "list" /\ result[d].kind = "list"
           /\ result[c].at = result[d].at)
              => /\ Range(result[c].recs) = Range(result[d].recs)
                 /\ Len(result[c].recs) = Len(result[d].recs)
    /\ \A c \in Callers :
          (req[c].op = "list" /\ Responded(c))
              => /\ stmts[c] = 1
                 /\ \/ /\ result[c].kind = "list"
                       /\ (result[c].at = 0 => result[c].recs = << >>)
                    \/ result[c] = Error(StorageUnavailable)

\* C7 witness: two callers have each listed the same two-row table.
C7_Witness ==
    \E c \in Callers, d \in Callers :
        /\ c # d
        /\ req[c].op = "list" /\ result[c].kind = "list" /\ result[c].at = 2
        /\ req[d].op = "list" /\ result[d].kind = "list" /\ result[d].at = 2

(* ---------------------------------------------------------------------- *)
(* C8, C9, C10                                                             *)
(* ---------------------------------------------------------------------- *)

\* C8: for every point with lon in [-180,180] and lat in [-90,90], the text
\* a reader receives for a record, decoded from the stored SRID-4326 value,
\* is a single-point expression denoting the (lon, lat) passed to create,
\* longitude first: in the record create returns, and in every record a read
\* returns for the stored row.  The point a text denotes is the pair of
\* floats its numerals are read as.
C8_GeometryRoundTrip ==
    /\ \A c \in Callers :
          (/\ req[c].op = "create" /\ result[c].kind = "record"
           /\ InRange(LonOf(req[c].geom), LatOf(req[c].geom)))
              => /\ SinglePointExpression(result[c].rec.geom)
                 /\ LonOf(result[c].rec.geom) = LonOf(req[c].geom)
                 /\ LatOf(result[c].rec.geom) = LatOf(req[c].geom)
                 /\ \A d \in Callers :
                       result[d].kind = "list"
                           => \A i \in 1..Len(result[d].recs) :
                                 result[d].recs[i].id = result[c].rec.id
                                     => /\ LonOf(result[d].recs[i].geom) = LonOf(req[c].geom)
                                        /\ LatOf(result[d].recs[i].geom) = LatOf(req[c].geom)

\* C8 witness: create("POINT (1.0 1.00<thirty zeros>1)") has returned, a read
\* by another caller returned the same record, and its text is POINT (1 1):
\* not the text that was passed, and the same point.
C8_Witness ==
    \E c \in Callers, d \in Callers :
        /\ c # d
        /\ pc[c] = "done" /\ req[c].op = "create" /\ result[c].kind = "record"
        /\ req[c].geom.pos[1][1] = Dec(FALSE, 1, <<0>>, FALSE)
        /\ req[c].geom.pos[1][2] = Dec(FALSE, 1, <<0, 0>>, TRUE)
        /\ result[d].kind = "list"
        /\ \E i \in 1..Len(result[d].recs) :
              /\ result[d].recs[i].id = result[c].rec.id
              /\ result[d].recs[i].geom = Wkt("POINT", TRUE, << <<Num(1), Num(1)>> >>)

\* C9: every persisted geometry is tagged with SRID 4326, and so is every
\* geometry create has built and holds for insertion, whatever text the
\* caller supplied.
C9_SridInvariant ==
    /\ \A i \in 1..Len(rows) : rows[i].geom.srid = 4326
    /\ \A c \in Callers :
          pc[c] \in {"commit", "flushed", "refresh"} => db_obj[c].geom.srid = 4326

\* C9 witness: a create whose text carries the prefix SRID=3857; has been
\* answered, over a table that holds a row.
C9_Witness ==
    \E c \in Callers :
        /\ pc[c] = "done" /\ req[c].op = "create" /\ req[c].geom.pre = "SRID=3857;"
        /\ Len(rows) > 0

\* C10: no two records share an id, and a stored record keeps its id,
\* createdAt, geometry and value and is never removed, in every step, also
\* when creates of several callers interleave.
C10_AppendOnlyUniqueIds ==
    [][/\ Len(rows') >= Len(rows)
       /\ \A i \in 1..Len(rows) : rows'[i] = rows[i]
       /\ \A i \in 1..Len(rows') : \A j \in 1..Len(rows') :
             rows'[i].id = rows'[j].id => i = j]_vars

\* C10 witness: two creates were in flight together and the one that got the
\* later id committed first.
C10_Witness ==
    /\ Len(rows) = 2
    /\ rows[1].id = 2 /\ rows[2].id = 1
    /\ \A c \in Callers : pc[c] = "refresh"

(* ---------------------------------------------------------------------- *)
(* C11                                                                     *)
(* ---------------------------------------------------------------------- *)

\* The operation of caller c is in flight: accepted and not yet answered.
InFlight(c) ==
    pc[c] \in {"create", "commit", "flushed", "refresh", "list", "bbox",
              "health", "close"}

\* C11: an operation holds one open session exactly while it is in flight,
\* and on every exit path, completion or failure, that session is eventually
\* closed; so when no operation is in flight no session is open.
\* The last conjunct says that no session stays open for ever; with the
\* second, that an open session can only become a closed one, every open
\* session is eventually closed.
C11_SessionReleased ==
    /\ [](\A c \in Callers : InFlight(c) <=> session[c] = "open")
    /\ [][\A c \in Callers :
            session[c] = "open" => session'[c] \in {"open", "closed"}]_vars
    /\ \A c \in Callers : []<>(session[c] # "open")

\* C11 witness: one operation has failed in the store and another has been
\* rejected for its bounds, both are answered, and both sessions are closed.
C11_Witness ==
    \E c \in Callers, d \in Callers :
        /\ pc[c] = "done" /\ result[c] = Error("DBAPIError")
        /\ pc[d] = "done" /\ result[d] = Error(InvalidBounds)
        /\ session[c] = "closed" /\ session[d] = "closed"

====
